---- MODULE Spec2Model ----
(***************************************************************************)
(* Rate resolution engine of the Telegram rates bot                        *)
(* (src/services/currency_service.py): TTL cache, HTTP fetcher with        *)
(* retry, Frankfurter / NBU / exchangerate-api adapters, date-proximity    *)
(* walk and the two facade entry points get_major_rate and get_uah_rate.   *)
(*                                                                         *)
(* Calendar dates are day numbers; a date STRING is a record               *)
(* [day, fmt] so that "2024-03-01" and "01.03.2024" are different strings  *)
(* of the same day.  Time is counted in half hours.  A float is a fraction *)
(* [n, d] with d > 0.                                                      *)
(***************************************************************************)
EXTENDS Integers, Sequences, FiniteSets, TLC

VARIABLES
    upstream,    \* the providers' data: per provider the days it has a rate for, and
                 \* whether its records may carry any date field and any value;
                 \* and the failures that may answer a request
    now,         \* datetime.now(), in half hours
    _rate_cache, \* key -> (rate, timestamp, actual_date)
    task,        \* per task: the coroutine of one get_major_rate / get_uah_rate call
    callsLeft,   \* calls that may still be started
    prev,        \* the last call that returned (key, result, time), or NoCall
    probe,       \* a call of _http_json_with_retry on its own: responses so far, outcome
    cleared,     \* what the last clear_cache returned, until an entry point is called again
    _memory_storage,   \* user_id -> the pair /pair stored, or None
    handler      \* per task: the coroutine of on_date_or_amount before it calls an entry point

vars == <<upstream, now, _rate_cache, task, callsLeft, prev, probe, cleared,
          _memory_storage, handler>>

----------------------------------------------------------------------------
(* Program constants                                                       *)

MAX_FALLBACK_DAYS == 7
MAX_RETRIES == 3
RETRY_DELAY == 1
CACHE_TTL == 2          \* timedelta(hours=1), in half hours
USE_FALLBACK_DATE == TRUE

----------------------------------------------------------------------------
(* Bounds of the model                                                     *)

Today0 == 8             \* the calendar day on which the run starts
MaxTime == 2            \* half hours the clock may advance
MaxCalls == 2           \* calls started in one run
MaxPublished == 2       \* days with upstream data, over all providers

StartTick == 48 * (Today0 + 1) - MaxTime     \* the clock's last tick is midnight after Today0
Days == (Today0 - MAX_FALLBACK_DAYS - 1) .. Today0   \* days a provider may have data for
ReqDays == {Today0 - 1, Today0}
Tasks == {1, 2}
MainTask == CHOOSE t \in Tasks : \A u \in Tasks : t <= u

None == [tag |-> "None"]
NoCall == [tag |-> "NoCall"]
NotReturned == [tag |-> "NotReturned"]
Absent == [tag |-> "absent"]        \* a JSON key that is not present
Count(n) == [tag |-> "count", count |-> n]     \* an int that was returned

----------------------------------------------------------------------------
(* Date strings                                                            *)

Iso(n) == [day |-> n, fmt |-> "iso"]        \* strftime("%Y-%m-%d")
Dmy(n) == [day |-> n, fmt |-> "dmy"]        \* "DD.MM.YYYY"
DayOf(t) == t \div 48
TodayStr(t) == Iso(DayOf(t))          \* datetime.now().strftime("%Y-%m-%d")

----------------------------------------------------------------------------
(* Floats                                                                  *)

Frac(a, b) == [n |-> a, d |-> b]
\* mutant of Positive: zero passes
PositiveOrZero(x) == x.n >= 0

Positive(x) == x.n > 0
\* mutant of Invert: the rate is passed on as it is
NoInvert(x) == x

Invert(x) == Frac(x.d, x.n)                 \* 1.0 / x, for x.n > 0

RECURSIVE Pow2(_)
Pow2(k) == IF k = 0 THEN 1 ELSE 2 * Pow2(k - 1)      \* 2 ** k

----------------------------------------------------------------------------
(* Rate cache                                                              *)

_get_cache_key(base, target, date) == <<base, target, date>>   \* f"{base}/{target}:{date}"

\* mutants of Fresh: the entry expires one tick early; an entry exactly one TTL old still counts
FreshTooShort(c, key, t) == key \in DOMAIN c /\ t - c[key].timestamp < CACHE_TTL - 1
FreshInclusive(c, key, t) == key \in DOMAIN c /\ t - c[key].timestamp <= CACHE_TTL

Fresh(c, key, t) == key \in DOMAIN c /\ t - c[key].timestamp < CACHE_TTL

\* What _get_cached_rate returns at time t: (rate, actual_date) or None.
_get_cached_rate(c, key, t) ==
    IF Fresh(c, key, t)
    THEN [rate |-> c[key].rate, actual_date |-> c[key].actual_date]
    ELSE None

\* The cache _get_cached_rate leaves behind: a stale entry of the key is deleted.
Evict(c, key, t) ==
    IF key \in DOMAIN c /\ ~Fresh(c, key, t)
    THEN [k \in DOMAIN c \ {key} |-> c[k]]
    ELSE c

\* mutant of _cache_rate: the key is built from the actual date
_cache_rate_actual(c, base, target, requested_date, rate, actual_date, t) ==
    LET key == _get_cache_key(base, target, actual_date)
    IN  [k \in DOMAIN c \cup {key} |->
            IF k = key
            THEN [rate |-> rate, timestamp |-> t, actual_date |-> actual_date]
            ELSE c[k]]

\* mutant of _cache_rate: an entry that exists keeps its actual date
_cache_rate_keep_date(c, base, target, requested_date, rate, actual_date, t) ==
    LET key == _get_cache_key(base, target, requested_date)
    IN  [k \in DOMAIN c \cup {key} |->
            IF k = key
            THEN [rate |-> rate, timestamp |-> t,
                  actual_date |-> IF key \in DOMAIN c THEN c[key].actual_date
                                  ELSE actual_date]
            ELSE c[k]]

\* mutant of _cache_rate: an entry that exists is left as it is
_cache_rate_if_absent(c, base, target, requested_date, rate, actual_date, t) ==
    LET key == _get_cache_key(base, target, requested_date)
    IN  [k \in DOMAIN c \cup {key} |->
            IF k = key /\ key \notin DOMAIN c
            THEN [rate |-> rate, timestamp |-> t, actual_date |-> actual_date]
            ELSE c[k]]

\* self._rate_cache[key] = (rate, datetime.now(), actual_date), at time t
_cache_rate(c, base, target, requested_date, rate, actual_date, t) ==
    LET key == _get_cache_key(base, target, requested_date)
    IN  [k \in DOMAIN c \cup {key} |->
            IF k = key
            THEN [rate |-> rate, timestamp |-> t, actual_date |-> actual_date]
            ELSE c[k]]

----------------------------------------------------------------------------
(* HTTP responses and JSON bodies                                          *)

Unparsable == [shape |-> "unparsable"]    \* resp.json() raises json.JSONDecodeError
BadContentType == [shape |-> "html"]      \* resp.json() raises aiohttp.ContentTypeError (a ClientError)
EmptyJson == [shape |-> "empty"]          \* {} or [] or null: falsy
NonNumeric == [tag |-> "non_numeric"]     \* a JSON value float() cannot convert

\* {"rates": {code: value}, "date": date}; date may be Absent
RatesBody(code, value, date) ==
    [shape |-> "dict", rates |-> [code |-> code, value |-> value], date |-> date]
\* a non-empty JSON object without "rates"
OtherDict == [shape |-> "dict", rates |-> Absent, date |-> Absent]
\* [{"rate": value, "exchangedate": date, ...}]; either may be Absent
RecordsBody(value, date) ==
    [shape |-> "list", first |-> [tag |-> "object", rate |-> value, exchangedate |-> date]]
\* a JSON array of strings, "rates" among them
StringList == [shape |-> "list", first |-> [tag |-> "string"]]

Http(status, body) == [kind |-> "http", status |-> status, body |-> body]
Timeout == [kind |-> "timeout"]              \* asyncio.TimeoutError
ClientError == [kind |-> "client_error"]     \* aiohttp.ClientError

----------------------------------------------------------------------------
(* _http_json_with_retry: one iteration of its loop                        *)

\* mutants of Transient: the loop has no last attempt; the delay is not doubled
TransientNoLimit(attempt, max_retries) ==
    [returned |-> FALSE, data |-> None, sleep |-> <<RETRY_DELAY * Pow2(attempt)>>]
TransientFlatDelay(attempt, max_retries) ==
    [returned |-> ~(attempt < max_retries - 1),
     data     |-> None,
     sleep    |-> IF attempt < max_retries - 1 THEN <<RETRY_DELAY>> ELSE <<>>]

\* mutant of Transient: after the last attempt the failure is handed on as a
\* body the adapters raise on
TransientRaisesAtLimit(attempt, max_retries) ==
    [returned |-> ~(attempt < max_retries - 1),
     data     |-> IF attempt < max_retries - 1 THEN None ELSE StringList,
     sleep    |-> IF attempt < max_retries - 1
                  THEN <<RETRY_DELAY * Pow2(attempt)>> ELSE <<>>]

\* The attempt failed in a way that lets the loop go on: sleep unless it was
\* the last attempt; after the last attempt the loop ends and None is returned.
Transient(attempt, max_retries) ==
    [returned |-> ~(attempt < max_retries - 1),
     data     |-> None,
     sleep    |-> IF attempt < max_retries - 1
                  THEN <<RETRY_DELAY * Pow2(attempt)>> ELSE <<>>]

Return(data) == [returned |-> TRUE, data |-> data, sleep |-> <<>>]

\* mutant of HttpAttempt: every status from 400 on is retried
HttpAttemptRetry4xx(attempt, resp, max_retries) ==
    IF resp.kind = "http"
    THEN IF resp.status = 200
         THEN IF resp.body = BadContentType THEN Transient(attempt, max_retries)
              ELSE IF resp.body = Unparsable THEN Return(None)
              ELSE Return(resp.body)
         ELSE IF resp.status >= 400 THEN Transient(attempt, max_retries)
         ELSE Return(None)
    ELSE Transient(attempt, max_retries)

HttpAttempt(attempt, resp, max_retries) ==
    IF resp.kind = "http"
    THEN IF resp.status = 200
         THEN IF resp.body = BadContentType THEN Transient(attempt, max_retries)
              ELSE IF resp.body = Unparsable THEN Return(None)
              ELSE Return(resp.body)
         ELSE IF resp.status = 404 THEN Return(None)
         ELSE IF resp.status >= 500 THEN Transient(attempt, max_retries)
         ELSE Return(None)
    ELSE Transient(attempt, max_retries)

----------------------------------------------------------------------------
(* Provider adapters: from the fetched JSON to (rate, actual_date)         *)

Found(rate, actual_date) == [tag |-> "found", rate |-> rate, actual_date |-> actual_date]
Raised == [tag |-> "raised"]        \* an exception leaves the adapter

Truthy(data) == data # None /\ data # EmptyJson

\* mutant of ParseRates: the date comes out one day early
ParseRatesDayBefore(data, target, default_date) ==
    IF ~Truthy(data) THEN None
    ELSE IF data.shape = "list"
         THEN IF data.first.tag = "string" THEN Raised ELSE None
    ELSE IF data.rates = Absent THEN None
    ELSE IF data.rates.code # target THEN None
    ELSE IF data.rates.value = NonNumeric THEN Raised
    ELSE Found(data.rates.value, Iso(default_date.day - 1))

\* `if data and "rates" in data and target in data["rates"]: ...` of the
\* Frankfurter and exchangerate-api adapters; default_date is the date queried.
ParseRates(data, target, default_date) ==
    IF ~Truthy(data) THEN None
    ELSE IF data.shape = "list"
         THEN IF data.first.tag = "string"
              THEN Raised                   \* data["rates"] on a list: TypeError
              ELSE None                     \* "rates" not among the elements
    ELSE IF data.rates = Absent THEN None
    ELSE IF data.rates.code # target THEN None
    ELSE IF data.rates.value = NonNumeric THEN Raised      \* float() raises
    ELSE Found(data.rates.value,
               IF data.date = Absent THEN default_date ELSE data.date)

\* actual_date.split('.') reassembled as f"{parts[2]}-{parts[1]}-{parts[0]}"
ReformatExchangeDate(s) == IF s.fmt = "dmy" THEN Iso(s.day) ELSE s

\* the fetched JSON is a list whose first record has a number <= 0 for its rate
NonPositiveRecord(data) ==
    /\ Truthy(data)
    /\ data.shape = "list"
    /\ data.first.tag = "object"
    /\ data.first.rate \notin {Absent, NonNumeric}
    /\ data.first.rate.n <= 0

\* _get_nbu_rate_for_currency after the fetch
ParseNbu(data, requested_date) ==
    IF ~Truthy(data) THEN None
    ELSE IF data.shape # "list" THEN None
    ELSE IF data.first.tag = "string" THEN Raised          \* rec.get: AttributeError
    ELSE IF data.first.rate = NonNumeric THEN Raised       \* float() raises
    ELSE LET rate == IF data.first.rate = Absent THEN Frac(0, 1) ELSE data.first.rate
         IN  IF Positive(rate)
             THEN Found(rate,
                        IF data.first.exchangedate = Absent
                        THEN requested_date
                        ELSE ReformatExchangeDate(data.first.exchangedate))
             ELSE None

----------------------------------------------------------------------------
(* Upstream: what a provider may answer to one request                     *)

RateOn(api, q) ==
    CASE api = "frankfurter"  -> Frac(100 + q, 100)
      [] api = "nbu"          -> Frac(270 + q, 10)
      [] api = "exchangerate" -> Frac(120, 100)

\* The NBU's rate of a day is another for every currency.
NbuRate(valcode, q) ==
    IF valcode = "EUR" THEN Frac(300 + q, 10) ELSE RateOn("nbu", q)

\* Answers a provider may give to any request when the network or the
\* provider is down: the failures the fetcher retries.
Outages == {Timeout, ClientError, Http(500, EmptyJson), Http(503, EmptyJson)}

\* Answers any provider may give to any request.
Failures ==
    {Timeout, ClientError,
     Http(500, EmptyJson), Http(503, EmptyJson), Http(400, EmptyJson), Http(429, EmptyJson),
     Http(200, Unparsable), Http(200, BadContentType),
     Http(200, EmptyJson), Http(200, OtherDict), Http(200, StringList)}

DateFields(api, q) ==
    IF api = "nbu" THEN {Absent, Dmy(q), Dmy(q - 1), Dmy(q + 1)}
                   ELSE {Absent, Iso(q), Iso(q - 1), Iso(q + 1)}

\* the date field of a well-formed record for day q
OwnDate(api, q) == IF api = "nbu" THEN Dmy(q) ELSE Iso(q)

\* (value, date field) of a response that carries a record for day q: the
\* day's rate under the day's date or, from a provider that takes liberties,
\* any date field or a value that is no positive number.
Carried(api, q, liberal) ==
    IF liberal
    THEN {<<RateOn(api, q), f>> : f \in DateFields(api, q)}
         \cup {<<v, OwnDate(api, q)>> : v \in {Frac(0, 1), Frac(0 - 1, 1), NonNumeric, Absent}}
    ELSE {<<RateOn(api, q), OwnDate(api, q)>>, <<RateOn(api, q), Absent>>}

\* The NBU has a rate for foreign currencies only.
HasData(up, url) ==
    CASE url.api = "frankfurter"  -> url.day \in up.frankfurter
      [] url.api = "nbu"          -> url.day \in up.nbu /\ url.to # "UAH"
      [] url.api = "exchangerate" -> TRUE

Upstream(up, url) ==
    up.faults \cup
    (IF ~HasData(up, url) THEN {Http(404, EmptyJson)}
     ELSE IF url.api = "nbu"
     THEN {Http(200, RecordsBody(IF c[1] = RateOn(url.api, url.day)
                                 THEN NbuRate(url.to, url.day) ELSE c[1], c[2])) :
              c \in Carried(url.api, url.day, up.liberal)}
     ELSE {Http(200, RatesBody(url.to, c[1], c[2])) :
              c \in {x \in Carried(url.api, url.day, up.liberal) : x[1] # Absent}})

----------------------------------------------------------------------------
(* The coroutine of one facade call                                        *)

Providers == {"frankfurter", "nbu"}

\* (entry point, base, target) of the calls made
CallInputs ==
    {<<"get_major_rate", "EUR", "USD">>,
     <<"get_uah_rate", "UAH", "USD">>,
     <<"get_uah_rate", "USD", "UAH">>,
     <<"get_uah_rate", "EUR", "USD">>,
     <<"get_uah_rate", "UAH", "UAH">>}

IdleTask ==
    [pc |-> "idle", fn |-> "-", base |-> "-", target |-> "-", date |-> Iso(0),
     days_back |-> 0, attempt |-> 0, queried |-> <<>>,
     result |-> NotReturned, source |-> "-",
     rejected |-> {},    \* the days_back at which the NBU's record had a rate <= 0
     other_date |-> None,   \* the exchange date of the NBU record that gave the rate,
                            \* reformatted, when it is not the date queried
     replaced |-> None]     \* the entry its _cache_rate found under the key, if any

KeyOf(tk) == _get_cache_key(tk.base, tk.target, tk.date)

\* mutant of RateResult: is_fallback is never set
RateResultNeverFallback(rate, actual_date, date) ==
    [tag |-> "rate", rate |-> rate, actual_date |-> actual_date, is_fallback |-> FALSE]

\* (rate, actual_date, is_fallback) as both entry points build it
RateResult(rate, actual_date, date) ==
    [tag |-> "rate", rate |-> rate, actual_date |-> actual_date,
     is_fallback |-> (actual_date # date)]

Started(fn, base, target, date) ==
    [IdleTask EXCEPT !.pc = "lookup", !.fn = fn, !.base = base, !.target = target,
                     !.date = date]

\* The call of task t returns `result`, which came from `source`: the cache,
\* the provider asked last, or "-" when no rate was found.
Finish(t, tk, result, source) ==
    /\ task' = [task EXCEPT ![t] = [tk EXCEPT !.pc = "done", !.result = result,
                                               !.source = source]]
    /\ prev' = [fn |-> tk.fn, key |-> KeyOf(tk), result |-> result, source |-> source,
                at |-> now]

\* mutant of CacheHit: the entry read is stamped anew
CacheHitRefreshes(t, tk) ==
    LET cached == _get_cached_rate(_rate_cache, KeyOf(tk), now)
    IN  /\ cached # None
        /\ Finish(t, tk, RateResult(cached.rate, cached.actual_date, tk.date), "cache")
        /\ _rate_cache' = [_rate_cache EXCEPT ![KeyOf(tk)].timestamp = now]

\* `cached = _get_cached_rate(...); if cached is not None: return ...`:
\* TRUE when the call returned from the cache; otherwise cache' is set.
CacheHit(t, tk) ==
    LET cached == _get_cached_rate(_rate_cache, KeyOf(tk), now)
    IN  /\ cached # None
        /\ Finish(t, tk, RateResult(cached.rate, cached.actual_date, tk.date), "cache")
        /\ UNCHANGED _rate_cache

CacheMiss(tk) ==
    /\ _get_cached_rate(_rate_cache, KeyOf(tk), now) = None
    /\ _rate_cache' = Evict(_rate_cache, KeyOf(tk), now)

\* mutant of CacheAndReturn: after a clear_cache the rate is returned but not written
CacheAndReturnUnlessCleared(t, tk, rate, actual_date) ==
    /\ _rate_cache' = IF cleared = None
                      THEN _cache_rate(_rate_cache, tk.base, tk.target, tk.date, rate,
                                       actual_date, now)
                      ELSE _rate_cache
    /\ Finish(t, tk, RateResult(rate, actual_date, tk.date), tk.pc)

\* `_cache_rate(base, target, date, rate, actual_date); return (rate, actual_date, is_fallback)`
CacheAndReturn(t, tk, rate, actual_date) ==
    /\ _rate_cache' = _cache_rate(_rate_cache, tk.base, tk.target, tk.date, rate,
                                  actual_date, now)
    /\ Finish(t, [tk EXCEPT !.replaced = IF KeyOf(tk) \in DOMAIN _rate_cache
                                         THEN _rate_cache[KeyOf(tk)] ELSE None],
              RateResult(rate, actual_date, tk.date), tk.pc)

\* mutant of ReturnNone: the absence is cached too
ReturnNoneCached(t, tk) ==
    /\ Finish(t, tk, None, "-")
    /\ _rate_cache' = _cache_rate(_rate_cache, tk.base, tk.target, tk.date, Frac(0, 1),
                                  tk.date, now)

\* `logger.warning(...); return None` of both entry points
ReturnNone(t, tk) ==
    /\ Finish(t, tk, None, "-")
    /\ UNCHANGED _rate_cache

\* mutant of Except: the exception reaches the caller
ExceptPropagates(t, tk) ==
    /\ Finish(t, tk, Raised, "-")
    /\ UNCHANGED _rate_cache

\* `except Exception as e: logger.error(...); return None` of both entry points
Except(t, tk) == ReturnNone(t, tk)

\* The task goes on to its next await.
Goto(t, tk) ==
    /\ task' = [task EXCEPT ![t] = tk]
    /\ UNCHANGED <<_rate_cache, prev>>

\* mutant of FallbackStr: the walk goes forward
FallbackStrForward(date, days_back) == Iso(date.day + days_back)

\* req_date - timedelta(days=days_back), formatted "%Y-%m-%d"
FallbackStr(date, days_back) == Iso(date.day - days_back)

\* mutant of NextUrl: the walk stays on the date it has queried
NextUrlSameDate(tk, days_back) == [tk EXCEPT !.attempt = 0]

\* the next date of the walk, before its first request
NextUrl(tk, days_back) ==
    [tk EXCEPT !.days_back = days_back, !.attempt = 0,
               !.queried = Append(tk.queried, FallbackStr(tk.date, days_back))]

----------------------------------------------------------------------------
(* get_major_rate                                                          *)

get_major_rate(t, base, target, date) ==
    /\ task[t].pc \in {"idle", "done"}
    /\ callsLeft > 0
    /\ callsLeft' = callsLeft - 1
    /\ UNCHANGED <<upstream, now, probe>>
    /\ cleared' = None
    /\ LET tk == Started("get_major_rate", base, target, date)
       IN  \/ CacheHit(t, tk)
           \/ /\ CacheMiss(tk)
              /\ task' = [task EXCEPT ![t] = NextUrl([tk EXCEPT !.pc = "frankfurter"], 0)]
              /\ UNCHANGED prev

\* mutant of TryBackup: the backup is asked whatever the requested date
TryBackupAnyDate(t, tk) == Goto(t, [tk EXCEPT !.pc = "exchangerate", !.attempt = 0])

\* _try_exchangerate_api_backup up to its await, and what get_major_rate does
\* when it returns None without one.
TryBackup(t, tk) ==
    IF tk.date = TodayStr(now)
    THEN Goto(t, [tk EXCEPT !.pc = "exchangerate", !.attempt = 0])
    ELSE ReturnNone(t, tk)

\* One request of _get_closest_rate_frankfurter and all that follows it
\* up to the next await or the return of get_major_rate.
FrankfurterAttempt(t) ==
    /\ task[t].pc = "frankfurter"
    /\ UNCHANGED <<upstream, now, callsLeft, probe, _memory_storage, handler>>
    /\ UNCHANGED cleared
    /\ LET tk0 == task[t]
           fallback_str == FallbackStr(tk0.date, tk0.days_back)
           url == [api |-> "frankfurter", day |-> fallback_str.day, to |-> tk0.target]
       IN \E resp \in Upstream(upstream, url) :
          LET a  == HttpAttempt(tk0.attempt, resp, MAX_RETRIES)
              tk == tk0
          IN  IF ~a.returned
              THEN Goto(t, [tk EXCEPT !.attempt = @ + 1])
              ELSE LET found == ParseRates(a.data, tk.target, fallback_str)
                   IN  IF found = Raised THEN Except(t, tk)
                       ELSE IF found # None
                       THEN CacheAndReturn(t, tk, found.rate, found.actual_date)
                       ELSE IF USE_FALLBACK_DATE /\ tk.days_back < MAX_FALLBACK_DAYS
                       THEN Goto(t, NextUrl(tk, tk.days_back + 1))
                       ELSE TryBackup(t, tk)

\* One request of _try_exchangerate_api_backup and the rest of get_major_rate.
BackupAttempt(t) ==
    /\ task[t].pc = "exchangerate"
    /\ UNCHANGED <<upstream, now, callsLeft, probe, _memory_storage, handler>>
    /\ UNCHANGED cleared
    /\ LET tk0 == task[t]
           \* the latest-rate provider answers for the day it is now
           url == [api |-> "exchangerate", day |-> DayOf(now), to |-> tk0.target]
       IN \E resp \in Upstream(upstream, url) :
          LET a  == HttpAttempt(tk0.attempt, resp, MAX_RETRIES)
              tk == tk0
          IN  IF ~a.returned
              THEN Goto(t, [tk EXCEPT !.attempt = @ + 1])
              ELSE LET found == ParseRates(a.data, tk.target, tk.date)
                   IN  IF found = Raised \/ found = None THEN ReturnNone(t, tk)
                       ELSE CacheAndReturn(t, tk, found.rate, found.actual_date)

----------------------------------------------------------------------------
(* get_uah_rate                                                            *)

\* the currency the NBU is asked for
NbuCurrency(tk) == IF tk.base = "UAH" THEN tk.target ELSE tk.base

get_uah_rate(t, base, target, date) ==
    /\ task[t].pc \in {"idle", "done"}
    /\ callsLeft > 0
    /\ callsLeft' = callsLeft - 1
    /\ UNCHANGED <<upstream, now, probe>>
    /\ cleared' = None
    /\ LET tk == Started("get_uah_rate", base, target, date)
       IN  \/ CacheHit(t, tk)
           \/ /\ CacheMiss(tk)
              /\ IF base = "UAH" \/ target = "UAH"
                 THEN /\ task' = [task EXCEPT ![t] = NextUrl([tk EXCEPT !.pc = "nbu"], 0)]
                      /\ UNCHANGED prev
                 ELSE Finish(t, tk, None, "-")

\* One request of _get_closest_rate_nbu (through _get_nbu_rate_for_currency)
\* and all that follows it up to the next await or the return of get_uah_rate.
NbuAttempt(t) ==
    /\ task[t].pc = "nbu"
    /\ UNCHANGED <<upstream, now, callsLeft, probe, _memory_storage, handler>>
    /\ UNCHANGED cleared
    /\ LET tk0 == task[t]
           fallback_date == FallbackStr(tk0.date, tk0.days_back)
           url == [api |-> "nbu", day |-> fallback_date.day, to |-> NbuCurrency(tk0)]
       IN \E resp \in Upstream(upstream, url) :
          LET a  == HttpAttempt(tk0.attempt, resp, MAX_RETRIES)
              tk == IF NonPositiveRecord(a.data)
                    THEN [tk0 EXCEPT !.rejected = @ \cup {tk0.days_back}]
                    ELSE tk0
          IN  IF ~a.returned
              THEN Goto(t, [tk EXCEPT !.attempt = @ + 1])
              ELSE LET found == ParseNbu(a.data, fallback_date)
                   IN  IF found = Raised THEN Except(t, tk)
                       ELSE IF found # None
                       THEN LET actual_date == IF tk.days_back = 0 THEN found.actual_date
                                               ELSE fallback_date
                                rate == IF tk.base = "UAH" THEN Invert(found.rate)
                                        ELSE found.rate
                                seen == IF found.actual_date # fallback_date
                                        THEN found.actual_date ELSE None
                            IN  CacheAndReturn(t, [tk EXCEPT !.other_date = seen],
                                               rate, actual_date)
                       ELSE IF USE_FALLBACK_DATE /\ tk.days_back < MAX_FALLBACK_DAYS
                       THEN Goto(t, NextUrl(tk, tk.days_back + 1))
                       ELSE ReturnNone(t, tk)

----------------------------------------------------------------------------
(* The cache's administration, and the clock                               *)

EmptyCache == [k \in {} |-> None]

\* mutant of CountEntries: only the entries that have not expired are counted
CountFresh(c, t) == Cardinality({k \in DOMAIN c : Fresh(c, k, t)})

\* count = len(_rate_cache), at time t
CountEntries(c, t) == Cardinality(DOMAIN c)

\* count = len(_rate_cache); _rate_cache.clear(); return count.  The call that
\* returned last is forgotten with the cache, so that `prev` is always a call
\* since which the cache was not cleared.
clear_cache ==
    /\ cleared' = Count(CountEntries(_rate_cache, now))
    /\ _rate_cache' = EmptyCache
    /\ prev' = NoCall
    /\ UNCHANGED <<upstream, now, task, callsLeft, probe, _memory_storage, handler>>

\* {"entries": len(_rate_cache), "ttl_hours": CACHE_TTL.total_seconds() / 3600}
get_cache_stats(c) == [entries |-> Cardinality(DOMAIN c), ttl_hours |-> CACHE_TTL \div 2]

Tick ==
    /\ now - StartTick < MaxTime
    /\ now' = now + 1
    /\ UNCHANGED <<upstream, _rate_cache, task, callsLeft, prev, probe, cleared,
                   _memory_storage, handler>>

----------------------------------------------------------------------------
(* _http_json_with_retry called on its own, one loop iteration at a time   *)

NewProbe == [attempt |-> 0, trace |-> <<>>, sleeps |-> <<>>, returned |-> FALSE,
             data |-> None]

Statuses == {200, 204, 301, 400, 403, 404, 429, 499, 500, 502, 503}

ProbeResponses ==
    {Timeout, ClientError}
    \cup {Http(st, EmptyJson) : st \in Statuses \ {200}}
    \cup {Http(200, b) : b \in {Unparsable, BadContentType, EmptyJson, OtherDict,
                                 RatesBody("USD", Frac(11, 10), Iso(Today0))}}

ProbeAttempt ==
    /\ ~probe.returned
    /\ \E resp \in ProbeResponses :
          LET a == HttpAttempt(probe.attempt, resp, MAX_RETRIES)
          IN  probe' = [attempt  |-> IF a.returned THEN probe.attempt ELSE probe.attempt + 1,
                        trace    |-> Append(probe.trace, resp),
                        sleeps   |-> probe.sleeps \o a.sleep,
                        returned |-> a.returned,
                        data     |-> a.data]
    /\ UNCHANGED <<upstream, now, _rate_cache, task, callsLeft, prev, _memory_storage,
                   handler>>
    /\ cleared' = None

ProbeAgain ==
    /\ probe.returned
    /\ probe' = NewProbe
    /\ UNCHANGED <<upstream, now, _rate_cache, task, callsLeft, prev, _memory_storage,
                   handler>>
    /\ cleared' = None

----------------------------------------------------------------------------
(* The chat commands: the store of pairs and the text-message handler      *)

Users == {1, 2}     \* message.from_user.id

Pair(base, target) == [tag |-> "pair", base |-> base, target |-> target]
ValueError(msg) == [tag |-> "ValueError", msg |-> msg]

SUPPORTED_PAIRS ==
    {<<"EUR", "USD">>, <<"EUR", "GBP">>, <<"EUR", "CHF">>,
     <<"USD", "EUR">>, <<"USD", "GBP">>, <<"USD", "CHF">>,
     <<"EUR", "SGD">>, <<"USD", "SGD">>,
     <<"UAH", "EUR">>, <<"UAH", "GBP">>, <<"UAH", "USD">>}

\* CURRENCY_ALIASES, then code.upper(), for the codes that are typed here
normalize_code(code) ==
    CASE code = "eur" -> "EUR"
      [] code = "uds" -> "USD"
      [] code = "uah" -> "UAH"
      [] OTHER -> code

\* text: the words of the argument of /pair, split at / - , and blanks
validate_pair_text(text) ==
    IF Len(text) < 2 THEN ValueError("format")
    ELSE LET base   == normalize_code(text[1])
             target == normalize_code(text[2])
         IN  IF base = target THEN ValueError("same")
             ELSE IF <<base, target>> \notin SUPPORTED_PAIRS THEN ValueError("unsupported")
             ELSE Pair(base, target)

\* what is typed after /pair
PairTexts == {<<"eur", "USD">>, <<"uah", "uds">>, <<"USD", "UAH">>, <<"EUR", "EUR">>, <<"EUR">>}

\* _memory_storage[user_id] = (base.upper(), target.upper())
set_pair(store, user_id, base, target) == [store EXCEPT ![user_id] = Pair(base, target)]

\* mutant of get_pair: a user without a pair gets EUR/USD
get_pair_or_default(store, user_id) ==
    IF user_id <= 0 THEN None
    ELSE IF store[user_id] = None THEN Pair("EUR", "USD")
    ELSE store[user_id]

\* _memory_storage.get(user_id), None for a user_id that is not positive
get_pair(store, user_id) == IF user_id <= 0 THEN None ELSE store[user_id]

\* del _memory_storage[user_id]
delete_pair(store, user_id) == [store EXCEPT ![user_id] = None]

\* what is typed as a date
DateTexts == {"yesterday", "soon"}

\* parse_date_any at time t: "YYYY-MM-DD", or the ValueError it raises
parse_date_any(date_text, t) ==
    CASE date_text = "today"     -> Iso(DayOf(t))
      [] date_text = "yesterday" -> Iso(DayOf(t) - 1)
      [] OTHER -> ValueError("date")

IdleHandler ==
    [pc |-> "idle", user |-> 0, base |-> "-", target |-> "-", date |-> Iso(0),
     answer |-> "-"]

\* `await message.answer(...); return` before any entry point was called
Answered(user, answer) == [IdleHandler EXCEPT !.pc = "answered", !.user = user,
                                              !.answer = answer]

\* the task has no update to handle
Free(t) ==
    \/ handler[t].pc \in {"idle", "answered"}
    \/ handler[t].pc = "resolving" /\ task[t].pc = "done"

\* cmd_pair: the pair is stored when it is valid
cmd_pair(user, text) ==
    /\ LET pair == validate_pair_text(text)
       IN  _memory_storage' = IF pair.tag = "pair"
                              THEN set_pair(_memory_storage, user, pair.base, pair.target)
                              ELSE _memory_storage
    /\ UNCHANGED <<upstream, now, _rate_cache, task, callsLeft, prev, probe, cleared,
                   handler>>

cmd_reset(user) ==
    /\ _memory_storage' = delete_pair(_memory_storage, user)
    /\ UNCHANGED <<upstream, now, _rate_cache, task, callsLeft, prev, probe, cleared,
                   handler>>

\* on_date_or_amount up to its first await: the answer that ends it, or
\* send_chat_action
on_date_or_amount(t, user, text) ==
    /\ Free(t)
    /\ LET pair == get_pair(_memory_storage, user)
           date == parse_date_any(text, now)
       IN  handler' = [handler EXCEPT ![t] =
               IF pair = None THEN Answered(user, "set_pair_first")
               ELSE IF date = ValueError("date") THEN Answered(user, "bad_date")
               ELSE [pc |-> "typing", user |-> user, base |-> pair.base,
                     target |-> pair.target, date |-> date, answer |-> "-"]]
    /\ UNCHANGED <<upstream, now, _rate_cache, task, callsLeft, prev, probe, cleared,
                   _memory_storage>>

\* on_date_or_amount after send_chat_action: it raised, or the entry point
\* of the pair is called, up to that one's first await
Typing(t) ==
    /\ handler[t].pc = "typing"
    /\ LET h == handler[t]
       IN  \/ /\ handler' = [handler EXCEPT ![t] = Answered(h.user, "failed")]
              /\ UNCHANGED <<upstream, now, _rate_cache, task, callsLeft, prev, probe,
                             cleared, _memory_storage>>
           \/ /\ IF h.base = "UAH" \/ h.target = "UAH"
                 THEN get_uah_rate(t, h.base, h.target, h.date)
                 ELSE get_major_rate(t, h.base, h.target, h.date)
              /\ handler' = [handler EXCEPT ![t].pc = "resolving"]
              /\ UNCHANGED _memory_storage

----------------------------------------------------------------------------
(* Specification                                                           *)

Slots == Providers \X Days

RECURSIVE SubsetsUpTo(_, _)
SubsetsUpTo(S, k) ==
    IF k = 0 THEN {{}}
    ELSE LET smaller == SubsetsUpTo(S, k - 1)
         IN  smaller \cup {T \cup {x} : T \in smaller, x \in S}

\* Upstream data: at most MaxPublished (provider, day) pairs with a rate.
Worlds ==
    {[frankfurter |-> {q \in Days : <<"frankfurter", q>> \in W},
      nbu         |-> {q \in Days : <<"nbu", q>> \in W},
      liberal     |-> TRUE,
      faults      |-> Failures] : W \in SubsetsUpTo(Slots, MaxPublished)}

\* Well-formed upstream data: both providers have the day before the last
\* requested day and an earlier one.
PlainWorlds ==
    {[frankfurter |-> D, nbu |-> D, liberal |-> FALSE, faults |-> Failures] :
        D \in {{Today0 - 1, Today0 - 3}}}

\* Well-formed upstream data behind a network that fails: a request is
\* answered by the provider or fails in a way the fetcher retries.
OutageWorlds == {[w EXCEPT !.faults = Outages] : w \in PlainWorlds}

InitWith(worlds, calls, start) ==
    /\ upstream \in worlds
    /\ now = start
    /\ _rate_cache = EmptyCache
    /\ task = [t \in Tasks |-> IdleTask]
    /\ callsLeft = calls
    /\ prev = NoCall
    /\ probe = NewProbe
    /\ cleared = None
    /\ _memory_storage = [u \in Users |-> None]
    /\ handler = [t \in Tasks |-> IdleHandler]

\* Several calls in a row over well-formed upstream data.
Init == InitWith(PlainWorlds, MaxCalls, StartTick)

\* One call from the empty cache, over any upstream data, begun in the last
\* half hour of Today0.
InitWalk == InitWith(Worlds, 1, StartTick + MaxTime - 1)

Call(t) ==
    /\ \E c \in CallInputs, d \in ReqDays :
          IF c[1] = "get_major_rate"
          THEN get_major_rate(t, c[2], c[3], Iso(d))
          ELSE get_uah_rate(t, c[2], c[3], Iso(d))
    /\ UNCHANGED <<_memory_storage, handler>>

Next ==
    \/ Call(MainTask)
    \/ FrankfurterAttempt(MainTask)
    \/ BackupAttempt(MainTask)
    \/ NbuAttempt(MainTask)
    \/ clear_cache
    \/ Tick

Spec == Init /\ [][Next]_vars

\* One call, and the clock.
NextWalk ==
    \/ Call(MainTask)
    \/ FrankfurterAttempt(MainTask)
    \/ BackupAttempt(MainTask)
    \/ NbuAttempt(MainTask)
    \/ Tick

SpecWalk == InitWalk /\ [][NextWalk]_vars

\* One call from the empty cache, over well-formed upstream data, and the
\* clock.  Every request ends - with a response, an error or the timeout of
\* aiohttp.ClientTimeout(total=REQUEST_TIMEOUT) - and every asyncio.sleep
\* ends, after which the event loop resumes the coroutine.
InitLive == InitWith(PlainWorlds, 1, StartTick)

SpecLive ==
    /\ InitLive /\ [][Next]_vars
    /\ WF_vars(FrankfurterAttempt(MainTask))
    /\ WF_vars(BackupAttempt(MainTask))
    /\ WF_vars(NbuAttempt(MainTask))

\* Several calls in a row when the only failures are those the fetcher retries.
InitOutage == InitWith(OutageWorlds, MaxCalls, StartTick)

SpecOutage == InitOutage /\ [][Next]_vars

\* get_uah_rate alone, in both directions and for two currencies, over
\* well-formed upstream data and at one instant.
UahInputs == {<<"UAH", "USD">>, <<"USD", "UAH">>, <<"UAH", "EUR">>, <<"EUR", "UAH">>}

CallUah(t) ==
    /\ \E c \in UahInputs, d \in ReqDays : get_uah_rate(t, c[1], c[2], Iso(d))
    /\ UNCHANGED <<_memory_storage, handler>>

NextUah == CallUah(MainTask) \/ NbuAttempt(MainTask)

SpecUah == Init /\ [][NextUah]_vars

\* Several tasks in get_major_rate at once for one key, over well-formed
\* upstream data: a task runs from one await to the next, then any task may run.
CallConc(t) ==
    /\ get_major_rate(t, "EUR", "USD", Iso(Today0))
    /\ UNCHANGED <<_memory_storage, handler>>

NextConc ==
    \/ \E t \in Tasks : CallConc(t)
    \/ \E t \in Tasks : FrankfurterAttempt(t)
    \/ \E t \in Tasks : BackupAttempt(t)
    \/ clear_cache
    \/ Tick

SpecConc == Init /\ [][NextConc]_vars

\* The bot: updates of two users handled by two tasks at once, one call of
\* an entry point in all.
InitBot == InitWith(PlainWorlds, 1, StartTick)

NextBot ==
    \/ \E u \in Users, text \in PairTexts : cmd_pair(u, text)
    \/ \E u \in Users : cmd_reset(u)
    \/ \E t \in Tasks, u \in Users, text \in DateTexts : on_date_or_amount(t, u, text)
    \/ \E t \in Tasks : Typing(t)
    \/ \E t \in Tasks : FrankfurterAttempt(t)
    \/ \E t \in Tasks : NbuAttempt(t)

SpecBot == InitBot /\ [][NextBot]_vars

\* The HTTP fetcher alone, against any sequence of responses.
InitFetch ==
    InitWith({[frankfurter |-> {}, nbu |-> {}, liberal |-> FALSE, faults |-> Failures]},
             0, StartTick)

NextFetch == ProbeAttempt \/ ProbeAgain

SpecFetch == InitFetch /\ [][NextFetch]_vars

----------------------------------------------------------------------------
(* Properties                                                              *)

Done(t) == task[t].pc = "done"
Got(t)  == Done(t) /\ task[t].result.tag = "rate"

\* the days for which the provider a call walks has a rate
DataDays(tk) ==
    IF tk.fn = "get_major_rate" THEN upstream.frankfurter
    ELSE IF NbuCurrency(tk) = "UAH" THEN {}
    ELSE upstream.nbu

\* the requested day and the 7 days before it
Window(tk) == {tk.date.day - k : k \in 0 .. 7}

Latest(S) == CHOOSE x \in S : \A y \in S : y <= x

\* C1: every result has an actual date that is not later than the requested
\* date; when the requested date has no data and one of the 7 days before it
\* has, the result is a fallback to the nearest such day - whatever date
\* field the responses carry.
C1_ActualDateNeverLater ==
    \A t \in Tasks :
        Got(t) =>
            LET tk == task[t]
                have == Window(tk) \cap DataDays(tk)
            IN  /\ tk.result.actual_date.day <= tk.date.day
                /\ (tk.date.day \notin have /\ have # {} /\ tk.source # "exchangerate")
                      => /\ tk.result.is_fallback
                         /\ tk.result.actual_date = Iso(Latest(have))

\* C2: the walk queries the requested date, then requested-1, requested-2,
\* ... in that order, at most 7 days back, and ends with the query that
\* yielded the rate: the rate returned is the one of the last date queried.
C2_WalkOrder ==
    \A t \in Tasks :
        LET tk == task[t]
            q  == tk.queried
        IN  /\ Len(q) <= 8
            /\ \A i \in 1 .. Len(q) : q[i] = Iso(tk.date.day - (i - 1))
            /\ (Got(t) /\ tk.source \in {"frankfurter", "nbu"})
                  => /\ Len(q) = tk.days_back + 1
                     /\ \A d \in Days :
                           tk.result.rate \in {RateOn(tk.source, d), Invert(RateOn(tk.source, d))}
                              => q[Len(q)].day = d

\* witness of C2: a rate found on the third date queried
C2_FoundAfterTwoMisses ==
    \E t \in Tasks :
        /\ Got(t) /\ task[t].source \in {"frankfurter", "nbu"}
        /\ Len(task[t].queried) = 3
        /\ task[t].result.rate.n > 0

\* witness of C2: the requested date itself yields the rate
C2_FoundAtOnce ==
    \E t \in Tasks : Got(t) /\ task[t].source = "nbu" /\ Len(task[t].queried) = 1

\* C3 as claimed: with no rate published for the requested date nor for any
\* of the 7 days before it, the call returns None.
C3_NoDataGivesNone ==
    \A t \in Tasks :
        (Done(t) /\ task[t].source # "cache" /\ Window(task[t]) \cap DataDays(task[t]) = {})
            => task[t].result = None

\* C3 amended: ... the call returns None, or - get_major_rate only, and only
\* for a requested date that was the current date during the call - the rate
\* of the backup adapter.
C3_NoDataGivesNoneOrBackup ==
    \A t \in Tasks :
        (Done(t) /\ task[t].source # "cache" /\ Window(task[t]) \cap DataDays(task[t]) = {})
            => \/ task[t].result = None
               \/ /\ task[t].fn = "get_major_rate"
                  /\ task[t].source = "exchangerate"
                  /\ task[t].result.tag = "rate"
                  /\ \E tau \in StartTick .. now : task[t].date = TodayStr(tau)

\* witness of C3: a walk over all 8 dates of a provider without data ends in None
C3_WalkedInVain ==
    \E t \in Tasks :
        /\ Done(t) /\ task[t].result = None
        /\ Window(task[t]) \cap DataDays(task[t]) = {}
        /\ Len(task[t].queried) = 8

\* C4: is_fallback is true exactly when the actual date differs from the
\* requested date, on every path that returns a rate.
C4_FallbackIffDatesDiffer ==
    \A t \in Tasks :
        Got(t) => (task[t].result.is_fallback <=> task[t].result.actual_date # task[t].date)

\* witness of C4: a fallback result returned from the cache
C4_CachedFallback ==
    \E t \in Tasks : Got(t) /\ task[t].source = "cache" /\ task[t].result.is_fallback

----------------------------------------------------------------------------
(* Properties of the cache                                                 *)

\* the step is the call of an entry point by task t
Calls(t) == callsLeft' = callsLeft - 1 /\ task'[t].pc # "idle"

\* the step is the return of task t with a rate it got from a provider
Resolves(t) ==
    /\ task[t].pc \notin {"idle", "done"}
    /\ task'[t].pc = "done"
    /\ task'[t].result.tag = "rate"

\* every entry of a key other than `key` is the same before and after the step
OtherKeysKept(key) ==
    \A k \in (DOMAIN _rate_cache \cup DOMAIN _rate_cache') \ {key} :
        /\ k \in DOMAIN _rate_cache
        /\ k \in DOMAIN _rate_cache'
        /\ _rate_cache'[k] = _rate_cache[k]

\* C6: when the call that returned last - with no clear_cache since - got a
\* rate from a provider, a call of the same entry point with the same (base,
\* target, date) made less than CACHE_TTL after it returns at once, with the
\* identical (rate, actual_date, is_fallback) and without any request.
C6_RepeatWithinTtlIsCacheHit ==
    [][\A t \in Tasks :
          (/\ Calls(t)
           /\ prev # NoCall
           /\ prev.result.tag = "rate"
           /\ prev.source # "cache"
           /\ prev.fn = task'[t].fn
           /\ prev.key = KeyOf(task'[t])
           /\ now - prev.at < CACHE_TTL)
             => /\ task'[t].pc = "done"
                /\ task'[t].result = prev.result
                /\ task'[t].source = "cache"
                /\ task'[t].queried = <<>>]_vars

\* witness of C6: a call answered from the cache half an hour after the call
\* that stored the entry
C6_SecondCallHit ==
    /\ Got(MainTask)
    /\ task[MainTask].source = "cache"
    /\ task[MainTask].queried = <<>>
    /\ prev # NoCall
    /\ prev.source = "cache"
    /\ prev.key \in DOMAIN _rate_cache
    /\ prev.at = _rate_cache[prev.key].timestamp + 1

\* C7: the lookup a call begins with returns the stored (rate, actual_date)
\* exactly when the key has an entry and now - timestamp < CACHE_TTL, and
\* then leaves the cache alone; otherwise the call is not answered from the
\* cache, the key has no entry afterwards, no other entry is touched, and a
\* call that has a provider sends its first request, for the requested date.
C7_LookupStrictTtl ==
    [][\A t \in Tasks :
          Calls(t) =>
            LET tk  == task'[t]
                key == KeyOf(tk)
            IN  IF key \in DOMAIN _rate_cache
                   /\ now - _rate_cache[key].timestamp < CACHE_TTL
                THEN /\ tk.pc = "done"
                     /\ tk.source = "cache"
                     /\ tk.result.tag = "rate"
                     /\ tk.result.rate = _rate_cache[key].rate
                     /\ tk.result.actual_date = _rate_cache[key].actual_date
                     /\ tk.queried = <<>>
                     /\ _rate_cache' = _rate_cache
                ELSE /\ tk.source # "cache"
                     /\ key \notin DOMAIN _rate_cache'
                     /\ OtherKeysKept(key)
                     /\ (tk.fn = "get_major_rate" \/ "UAH" \in {tk.base, tk.target})
                           => /\ tk.pc \in Providers
                              /\ tk.queried = <<tk.date>>]_vars

\* witness of C7: a call made a full CACHE_TTL after the call that stored the
\* entry of its key: the entry is gone and the request for the requested date
\* is under way
C7_RefetchAfterTtl ==
    /\ task[MainTask].pc \in Providers
    /\ task[MainTask].queried = <<task[MainTask].date>>
    /\ prev # NoCall
    /\ prev.source \in Providers
    /\ prev.result.tag = "rate"
    /\ prev.key = KeyOf(task[MainTask])
    /\ now - prev.at >= CACHE_TTL
    /\ prev.key \notin DOMAIN _rate_cache

\* C8: a call that returns a rate of a date other than the requested one
\* leaves it in the cache under the key of the REQUESTED date, stamped now,
\* and neither creates nor changes an entry under the key of the actual date;
\* the same call made again less than CACHE_TTL later is answered from the
\* cache with the same fallback result.
C8_FallbackCachedUnderRequestedDate ==
    [][\A t \in Tasks :
          LET tk == task'[t]
          IN  /\ (Resolves(t) /\ tk.result.actual_date # tk.date)
                    => LET kd == KeyOf(tk)
                           ka == _get_cache_key(tk.base, tk.target, tk.result.actual_date)
                       IN  /\ kd \in DOMAIN _rate_cache'
                           /\ _rate_cache'[kd] = [rate        |-> tk.result.rate,
                                                  timestamp   |-> now,
                                                  actual_date |-> tk.result.actual_date]
                           /\ ka \in DOMAIN _rate_cache' <=> ka \in DOMAIN _rate_cache
                           /\ ka \in DOMAIN _rate_cache => _rate_cache'[ka] = _rate_cache[ka]
              /\ (/\ Calls(t)
                  /\ prev # NoCall
                  /\ prev.result.tag = "rate"
                  /\ prev.source \in Providers
                  /\ prev.result.is_fallback
                  /\ prev.key = KeyOf(tk)
                  /\ now - prev.at < CACHE_TTL)
                    => /\ tk.source = "cache"
                       /\ tk.result = prev.result]_vars

\* witness of C8: get_major_rate has returned a fallback rate from the
\* provider; the key of the requested date has an entry, the key of the
\* actual date has none
C8_FallbackStored ==
    \E t \in Tasks :
        /\ Got(t)
        /\ task[t].fn = "get_major_rate"
        /\ task[t].source = "frankfurter"
        /\ task[t].result.is_fallback
        /\ task[t].days_back > 0
        /\ KeyOf(task[t]) \in DOMAIN _rate_cache
        /\ _get_cache_key(task[t].base, task[t].target, task[t].result.actual_date)
              \notin DOMAIN _rate_cache

\* C9: a step of a call never touches the entry of a key other than its own.
\* The step on which a call returns a rate it got from a provider writes the
\* entry (rate, now, actual_date) of its own key; the step on which a call
\* begins leaves the cache as it is or deletes the stale entry of its own
\* key; every other step of a call - a retry, a step back, the return of None
\* from the body or from the exception handler - leaves the cache unchanged.
C9_CacheFrame ==
    [][(task' # task \/ callsLeft' # callsLeft) =>
          \E t \in Tasks :
              LET tk  == task'[t]
                  key == KeyOf(tk)
              IN  /\ \A u \in Tasks \ {t} : task'[u] = task[u]
                  /\ OtherKeysKept(key)
                  /\ IF Resolves(t)
                     THEN /\ key \in DOMAIN _rate_cache'
                          /\ _rate_cache'[key] = [rate        |-> tk.result.rate,
                                                  timestamp   |-> now,
                                                  actual_date |-> tk.result.actual_date]
                     ELSE IF callsLeft' # callsLeft
                     THEN \/ _rate_cache' = _rate_cache
                          \/ /\ key \in DOMAIN _rate_cache
                             /\ now - _rate_cache[key].timestamp >= CACHE_TTL
                             /\ key \notin DOMAIN _rate_cache'
                     ELSE _rate_cache' = _rate_cache]_vars

\* witness of C9: a second key got its entry while the first one's was kept
C9_SecondEntryWritten ==
    \E t \in Tasks :
        /\ Got(t)
        /\ task[t].source \in Providers
        /\ Cardinality(DOMAIN _rate_cache) = 2
        /\ _rate_cache[KeyOf(task[t])].timestamp = now

\* witness of C9: a call ended in None by the exception handler, next to the
\* entry an earlier call had written
C9_RaisedLeavesCache ==
    \E t \in Tasks :
        /\ Done(t)
        /\ task[t].result = None
        /\ Len(task[t].queried) = 1
        /\ task[t].fn = "get_major_rate"
        /\ KeyOf(task[t]) \notin DOMAIN _rate_cache
        /\ Cardinality(DOMAIN _rate_cache) = 1

----------------------------------------------------------------------------
(* Properties of _http_json_with_retry                                     *)

\* C10: a response with a status other than 200 and below 500 (404 among
\* them) is the last one of its call: the call returns None on it, it is not
\* retried, and no sleep follows it - the sleeps are those of the attempts
\* before it.
C10_NoRetryBelow500 ==
    \A i \in 1 .. Len(probe.trace) :
        (/\ probe.trace[i].kind = "http"
         /\ probe.trace[i].status # 200
         /\ probe.trace[i].status < 500)
            => /\ i = Len(probe.trace)
               /\ probe.returned
               /\ probe.data = None
               /\ Len(probe.sleeps) = i - 1

\* witness of C10: the first request is answered 403, and the call is over
C10_ReturnedOn403 ==
    /\ probe.returned
    /\ probe.data = None
    /\ Len(probe.trace) = 1
    /\ probe.trace[1].kind = "http"
    /\ probe.trace[1].status = 403
    /\ probe.sleeps = <<>>

\* witness of C10: a 404 after a server error ends the call with one sleep
C10_ReturnedOn404AfterRetry ==
    /\ probe.returned
    /\ Len(probe.trace) = 2
    /\ probe.trace[2].kind = "http"
    /\ probe.trace[2].status = 404
    /\ probe.sleeps = <<RETRY_DELAY>>

\* a response the fetcher is said to retry: status >= 500, timeout, connection error
TransientResponse(r) == r.kind \in {"timeout", "client_error"} \/ r.status >= 500

\* a response that is no 200 with a body that is JSON
FailedResponse(r) ==
    r.kind # "http" \/ r.status # 200 \/ r.body \in {Unparsable, BadContentType}

\* C11: one call of _http_json_with_retry sends at most MAX_RETRIES (3)
\* requests; a request that ends in a status >= 500, a timeout or a
\* connection error is followed by another one unless it was the third; when
\* all three end that way the call returns None.
C11_TransientRetriedUpToLimit ==
    LET n == Len(probe.trace)
    IN  /\ n <= MAX_RETRIES
        /\ (n >= 1 /\ n < MAX_RETRIES /\ TransientResponse(probe.trace[n]))
              => ~probe.returned
        /\ (n = MAX_RETRIES /\ \A i \in 1 .. n : TransientResponse(probe.trace[i]))
              => probe.returned /\ probe.data = None

\* witness of C11: a 503, a timeout and a connection error, and the call is over
C11_ThreeTransientFailures ==
    /\ probe.returned
    /\ probe.data = None
    /\ Len(probe.trace) = 3
    /\ probe.trace[1].kind = "http" /\ probe.trace[1].status = 503
    /\ probe.trace[2].kind = "timeout"
    /\ probe.trace[3].kind = "client_error"

\* C12 as claimed: a failure other than a timeout, a connection error or a
\* status >= 500 - a 200 whose body is not JSON among them - is the last
\* response of its call, which returns None on it.
C12_OtherFailuresEndFetch ==
    \A i \in 1 .. Len(probe.trace) :
        (FailedResponse(probe.trace[i]) /\ ~TransientResponse(probe.trace[i]))
            => /\ i = Len(probe.trace)
               /\ probe.returned
               /\ probe.data = None

\* C13: the sleeps of one call are RETRY_DELAY, then twice the one before:
\* one after every attempt that is followed by another attempt, none after
\* the attempt the call returns on, be it the last allowed or not.
C13_BackoffSleeps ==
    LET n == Len(probe.trace)
        m == Len(probe.sleeps)
    IN  /\ m = IF probe.returned THEN n - 1 ELSE n
        /\ m >= 1 => probe.sleeps[1] = RETRY_DELAY
        /\ \A k \in 1 .. m - 1 : probe.sleeps[k + 1] = 2 * probe.sleeps[k]
        /\ \A k \in 1 .. m : probe.sleeps[k] = RETRY_DELAY * Pow2(k - 1)

\* witness of C13: three transient failures, slept 1 then 2, nothing after the third
C13_SleptOneThenTwo ==
    /\ probe.returned
    /\ Len(probe.trace) = MAX_RETRIES
    /\ \A i \in 1 .. Len(probe.trace) : TransientResponse(probe.trace[i])
    /\ probe.sleeps = <<1, 2>>

----------------------------------------------------------------------------
(* Properties of the facade                                                *)

\* C14: get_major_rate sends its first request to the historical provider,
\* for the requested date, on the step it is called and only when the cache
\* lookup missed; it turns to the backup provider only from the historical
\* walk, after the requested date and the 7 dates before it were all queried
\* in vain, and only when the requested date is the current calendar date.
C14_ProviderOrder ==
    [][\A t \in Tasks :
          LET a == task[t]
              b == task'[t]
          IN  /\ (b.pc = "frankfurter" /\ a.pc # "frankfurter")
                    => /\ Calls(t)
                       /\ b.fn = "get_major_rate"
                       /\ b.queried = <<b.date>>
                       /\ ~(/\ KeyOf(b) \in DOMAIN _rate_cache
                            /\ now - _rate_cache[KeyOf(b)].timestamp < CACHE_TTL)
              /\ (b.pc = "exchangerate" /\ a.pc # "exchangerate")
                    => /\ a.pc = "frankfurter"
                       /\ a.fn = "get_major_rate"
                       /\ a.days_back = 7
                       /\ Len(a.queried) = 8
                       /\ \A i \in 1 .. 8 : a.queried[i] = Iso(a.date.day - (i - 1))
                       /\ b.queried = a.queried
                       /\ b.date = TodayStr(now)]_vars

\* witness of C14: a rate of the backup provider, after 8 dates queried in vain
C14_BackupAnswered ==
    \E t \in Tasks :
        /\ Got(t)
        /\ task[t].source = "exchangerate"
        /\ Len(task[t].queried) = 8
        /\ task[t].result.rate = RateOn("exchangerate", DayOf(now))

\* C15: a rate get_uah_rate got from the NBU is, for base = UAH, the
\* reciprocal of the NBU's rate of the TARGET currency and, for target = UAH,
\* the NBU's rate of the BASE currency as it is - the rate of the date queried
\* last; found on the requested date itself it comes with actual_date = the
\* requested date and is_fallback = false.
C15_DirectionByUahSide ==
    \A t \in Tasks :
        (Got(t) /\ task[t].fn = "get_uah_rate" /\ task[t].source = "nbu") =>
            LET tk == task[t]
                d  == tk.queried[Len(tk.queried)].day
            IN  /\ tk.base = "UAH"
                      => /\ tk.result.rate.n = NbuRate(tk.target, d).d
                         /\ tk.result.rate.d = NbuRate(tk.target, d).n
                /\ tk.base # "UAH"
                      => /\ tk.target = "UAH"
                         /\ tk.result.rate = NbuRate(tk.base, d)
                /\ tk.days_back = 0
                      => /\ tk.result.actual_date = tk.date
                         /\ ~tk.result.is_fallback

\* witness of C15: UAH/EUR on a date the NBU has: 10/307 for an NBU rate of 30.7
C15_UahEurInverted ==
    \E t \in Tasks :
        /\ Got(t)
        /\ task[t].source = "nbu"
        /\ task[t].base = "UAH" /\ task[t].target = "EUR"
        /\ task[t].date = Iso(Today0 - 1)
        /\ task[t].result = [tag |-> "rate", rate |-> Frac(10, 300 + Today0 - 1),
                             actual_date |-> Iso(Today0 - 1), is_fallback |-> FALSE]

\* C16 as claimed: a call of get_uah_rate with both sides UAH, or neither,
\* returns None on the step it is made, with no request to the NBU and no
\* entry added to or changed in the cache.
C16_RejectsBothOrNeither ==
    [][\A t \in Tasks :
          (/\ Calls(t)
           /\ task'[t].fn = "get_uah_rate"
           /\ (task'[t].base = "UAH") <=> (task'[t].target = "UAH"))
             => /\ task'[t].pc = "done"
                /\ task'[t].result = None
                /\ task'[t].queried = <<>>
                /\ \A k \in DOMAIN _rate_cache' :
                      k \in DOMAIN _rate_cache /\ _rate_cache'[k] = _rate_cache[k]]_vars

\* the key of a pair with UAH on a side
UahKey(k) == k[1] = "UAH" \/ k[2] = "UAH"

\* C17: a rate get_uah_rate returns, and a rate in the cache under a pair
\* with UAH, is a positive number with a non-zero denominator (no reciprocal
\* of zero); a rate returned from the NBU is not the one of a date whose
\* record had a rate <= 0: on such a record the walk went on as on no data.
C17_NonPositiveNbuRateRejected ==
    /\ \A t \in Tasks :
          (Got(t) /\ task[t].fn = "get_uah_rate")
              => /\ task[t].result.rate.n > 0
                 /\ task[t].result.rate.d > 0
                 /\ task[t].source = "nbu" => task[t].days_back \notin task[t].rejected
    /\ \A t \in Tasks :
          (task[t].pc = "nbu" /\ task[t].attempt = 0)
              => \A k \in task[t].rejected : k < task[t].days_back
    /\ \A k \in DOMAIN _rate_cache :
          UahKey(k) => _rate_cache[k].rate.n > 0 /\ _rate_cache[k].rate.d > 0

\* witness of C17: the NBU's record of the requested date had a rate <= 0;
\* the rate returned, inverted, is the one of the day before
C17_PassedOverNonPositive ==
    \E t \in Tasks :
        /\ Got(t)
        /\ task[t].source = "nbu"
        /\ task[t].base = "UAH"
        /\ task[t].rejected = {0}
        /\ task[t].days_back = 1
        /\ KeyOf(task[t]) \in DOMAIN _rate_cache

\* C18 as claimed: every rate returned by get_major_rate or get_uah_rate and
\* every rate in the cache is a positive number.
C18_RatesPositive ==
    /\ \A t \in Tasks : Got(t) => task[t].result.rate.n > 0 /\ task[t].result.rate.d > 0
    /\ \A k \in DOMAIN _rate_cache : _rate_cache[k].rate.n > 0 /\ _rate_cache[k].rate.d > 0

\* the step on which a call of task t returns a rate
ReturnsRate(t) ==
    /\ task'[t].pc = "done"
    /\ task'[t].result.tag = "rate"
    /\ task[t].pc # "done" \/ callsLeft' # callsLeft

\* the call that returned last was (UAH, X, d) and gave a rate, and the call
\* of task t, which returns on this step, is (X, UAH, d)
RoundTrip(t) ==
    /\ ReturnsRate(t)
    /\ prev # NoCall
    /\ prev.result.tag = "rate"
    /\ prev.key = _get_cache_key("UAH", task'[t].base, task'[t].date)
    /\ task'[t].target = "UAH"
    /\ task'[t].base # "UAH"

\* x * y = 1
ProductIsOne(x, y) == x.n * y.n = x.d * y.d

C20_RateOrNone ==
    \A t \in Tasks :
        LET tk == task[t]
        IN  /\ tk.pc \in {"idle", "done", "frankfurter", "exchangerate", "nbu"}
            /\ tk.pc = "done"
                  => \/ tk.result = None
                     \/ /\ tk.result.tag = "rate"
                        /\ DOMAIN tk.result = {"tag", "rate", "actual_date", "is_fallback"}
                        /\ tk.result.is_fallback \in BOOLEAN
                        /\ tk.result.actual_date.fmt \in {"iso", "dmy"}
            /\ tk.pc \notin {"idle", "done"}
                  => /\ tk.result = NotReturned
                     /\ tk.attempt < MAX_RETRIES
                     /\ tk.days_back <= 7
                     /\ Len(tk.queried) <= 8

\* witness of C20: a call for a pair with UAH that ended in None after one
\* date only, which is the way of the exception handler
C20_ExceptionBecameNone ==
    \E t \in Tasks :
        /\ Done(t)
        /\ task[t].fn = "get_uah_rate"
        /\ UahKey(KeyOf(task[t]))
        /\ task[t].result = None
        /\ Len(task[t].queried) = 1

----------------------------------------------------------------------------
(* Properties of the NBU resolution                                        *)

\* C21 as claimed: when the NBU record that gave the rate carries an exchange
\* date other than the date queried - the requested date or a fallback date -
\* the actual_date of the result is that exchange date, as YYYY-MM-DD.
C21_ExchangeDateIsActualDate ==
    \A t \in Tasks :
        (Got(t) /\ task[t].source = "nbu" /\ task[t].other_date # None)
            => /\ task[t].result.actual_date = task[t].other_date
               /\ task[t].result.actual_date.fmt = "iso"

----------------------------------------------------------------------------
(* Properties of the cache's administration                                *)

\* the step is a clear_cache
Clears ==
    /\ now' = now /\ task' = task /\ callsLeft' = callsLeft /\ probe' = probe
    /\ cleared' # None

\* C24: clear_cache returns the number of entries the cache holds when it is
\* called, the expired ones among them, and leaves none: get_cache_stats
\* reports 0 entries.  From an empty cache a call is never answered from the
\* cache, and the cache gets an entry only by a call that returns a rate it
\* got from a provider.
C24_ClearReturnsCountAndEmpties ==
    [][/\ Clears
          => /\ cleared' = [tag |-> "count", count |-> Cardinality(DOMAIN _rate_cache)]
             /\ DOMAIN _rate_cache' = {}
             /\ get_cache_stats(_rate_cache').entries = 0
       /\ \A t \in Tasks :
             (Calls(t) /\ DOMAIN _rate_cache = {})
                 => /\ task'[t].source # "cache"
                    /\ DOMAIN _rate_cache' = {}
       /\ (DOMAIN _rate_cache = {} /\ DOMAIN _rate_cache' # {})
             => \E t \in Tasks : Resolves(t)]_vars

\* witness of C24: clear_cache has just returned 2, an hour after the run began
C24_ClearedTwoEntries ==
    /\ cleared = [tag |-> "count", count |-> 2]
    /\ DOMAIN _rate_cache = {}
    /\ now = StartTick + CACHE_TTL

----------------------------------------------------------------------------
(* Properties of tasks that share the cache                                *)

\* (rate, actual_date) is what one resolution of get_major_rate for the
\* requested day `day` writes: a Frankfurter rate with the day it is of, or
\* the backup's rate with a date of the backup
WrittenByOne(e, day) ==
    \/ \E q \in (day - MAX_FALLBACK_DAYS) .. day :
          e.rate = RateOn("frankfurter", q) /\ e.actual_date = Iso(q)
    \/ /\ e.rate = RateOn("exchangerate", day)
       /\ e.actual_date \in {Iso(day), Iso(day + 1)}

\* the entry task t's result makes when it is written at time at
EntryOf(t, at) ==
    [rate |-> task'[t].result.rate, timestamp |-> at,
     actual_date |-> task'[t].result.actual_date]

\* C22: tasks interleave at their requests over the one cache.  Every entry
\* is the (rate, time, actual date) of one resolution, never parts of two;
\* an entry changes only by the return of a resolution, and then it is that
\* resolution's entry whole, stamped now - so the key holds the entry of the
\* task that wrote last.  A call that finds no fresh entry begins a walk of
\* its own at the requested date even while another task is resolving the
\* same key, and leaves that task as it was.
C22_SingleWriterLastWins ==
    [][/\ \A k \in DOMAIN _rate_cache' :
             /\ WrittenByOne(_rate_cache'[k], k[3].day)
             /\ _rate_cache'[k].timestamp <= now'
       /\ \A t \in Tasks :
             Resolves(t)
                 => /\ KeyOf(task'[t]) \in DOMAIN _rate_cache'
                    /\ _rate_cache'[KeyOf(task'[t])] = EntryOf(t, now)
       /\ \A k \in DOMAIN _rate_cache \cap DOMAIN _rate_cache' :
             _rate_cache'[k] # _rate_cache[k]
                 => \E t \in Tasks : Resolves(t) /\ KeyOf(task'[t]) = k
       /\ callsLeft' = callsLeft - 1
             => \E t \in Tasks :
                   /\ task[t].pc \in {"idle", "done"}
                   /\ \A u \in Tasks \ {t} : task'[u] = task[u]
                   /\ IF Fresh(_rate_cache, KeyOf(task'[t]), now)
                      THEN task'[t].pc = "done" /\ task'[t].source = "cache"
                      ELSE /\ task'[t].pc = "frankfurter"
                           /\ task'[t].queried = <<task'[t].date>>
                           /\ task'[t].days_back = 0
                           /\ task'[t].attempt = 0]_vars

\* witness of C22: within one TTL both tasks have resolved the same key from
\* the providers, with different rates; the one that wrote last found the
\* other's entry, and the cache holds its own
C22_BothResolvedOneKey ==
    /\ \A t \in Tasks : Got(t) /\ task[t].source \in {"frankfurter", "exchangerate"}
    /\ \A t, u \in Tasks : KeyOf(task[t]) = KeyOf(task[u])
    /\ \E t, u \in Tasks : task[t].result.rate # task[u].result.rate
    /\ now - StartTick < CACHE_TTL
    /\ KeyOf(task[MainTask]) \in DOMAIN _rate_cache
    /\ \E t, u \in Tasks :
          /\ _rate_cache[KeyOf(task[t])].rate = task[t].result.rate
          /\ task[t].replaced # None
          /\ task[t].replaced.rate = task[u].result.rate
          /\ task[u].result.rate # task[t].result.rate

\* C23: _cache_rate replaces the entry its key has, be it fresh or expired,
\* by (rate, now, actual_date), and leaves the entries of other keys alone;
\* no other step changes an entry that exists - a lookup, a clear_cache or
\* the passing of time may at most remove it.
C23_PutOverwrites ==
    [][/\ \A t \in Tasks :
             (Resolves(t) /\ KeyOf(task'[t]) \in DOMAIN _rate_cache)
                 => /\ task'[t].replaced = _rate_cache[KeyOf(task'[t])]
                    /\ DOMAIN _rate_cache' = DOMAIN _rate_cache
                    /\ _rate_cache'[KeyOf(task'[t])] = EntryOf(t, now)
                    /\ OtherKeysKept(KeyOf(task'[t]))
       /\ (\A t \in Tasks : ~Resolves(t))
             => \A k \in DOMAIN _rate_cache \cap DOMAIN _rate_cache' :
                   _rate_cache'[k] = _rate_cache[k]]_vars

\* witness of C23: a task has replaced an entry that was still fresh by one
\* with another rate
C23_ReplacedFresh ==
    \E t \in Tasks :
        /\ Got(t) /\ task[t].replaced # None
        /\ KeyOf(task[t]) \in DOMAIN _rate_cache
        /\ _rate_cache[KeyOf(task[t])].rate = task[t].result.rate
        /\ _rate_cache[KeyOf(task[t])].rate # task[t].replaced.rate
        /\ _rate_cache[KeyOf(task[t])].timestamp - task[t].replaced.timestamp < CACHE_TTL

\* witness of C23: a task has replaced an entry that had expired
C23_ReplacedStale ==
    \E t \in Tasks :
        /\ Got(t) /\ task[t].replaced # None
        /\ KeyOf(task[t]) \in DOMAIN _rate_cache
        /\ _rate_cache[KeyOf(task[t])].rate = task[t].result.rate
        /\ _rate_cache[KeyOf(task[t])].timestamp - task[t].replaced.timestamp >= CACHE_TTL

----------------------------------------------------------------------------
(* Properties of the walk when fetches fail                                *)

\* C25: a fetch that has failed MAX_RETRIES times in a way the fetcher
\* retries is a date without data to the walk: it goes on to the day before
\* (after the last of the 8 dates the call ends, or asks the backup), and
\* writes nothing; a rate found on a later query is returned as a fallback
\* and cached under the requested date, fresh for one whole TTL from now -
\* whether or not the requested date has a rate upstream.
C25_ExhaustedFetchIsNoData ==
    [][\A t \in Tasks :
          LET tk == task[t]
          IN  (tk.pc \in {"frankfurter", "nbu"} /\ task'[t] # tk)
                 => /\ (tk.attempt = MAX_RETRIES - 1 /\ ~Resolves(t))
                          => /\ _rate_cache' = _rate_cache
                             /\ IF tk.days_back < MAX_FALLBACK_DAYS
                                THEN task'[t] = NextUrl(tk, tk.days_back + 1)
                                ELSE \/ task'[t].pc = "exchangerate"
                                     \/ task'[t].pc = "done" /\ task'[t].result = None
                    /\ (Resolves(t) /\ tk.days_back >= 1)
                          => /\ task'[t].result.is_fallback
                             /\ task'[t].result.actual_date = Iso(tk.date.day - tk.days_back)
                             /\ KeyOf(tk) \in DOMAIN _rate_cache'
                             /\ _rate_cache'[KeyOf(tk)] = EntryOf(t, now)
                             /\ Fresh(_rate_cache', KeyOf(tk), now + CACHE_TTL - 1)
                             /\ ~Fresh(_rate_cache', KeyOf(tk), now + CACHE_TTL)]_vars

\* witness of C25: the requested date has a rate upstream, its fetch failed
\* three times, and the call returned the rate of three days before, which
\* is now in the cache under the requested date
C25_FellBackPastPublishedDate ==
    \E t \in Tasks :
        /\ Got(t) /\ task[t].source \in {"frankfurter", "nbu"}
        /\ upstream.faults = Outages
        /\ task[t].date.day \in DataDays(task[t])
        /\ task[t].days_back = 2
        /\ task[t].result.is_fallback
        /\ KeyOf(task[t]) \in DOMAIN _rate_cache
        /\ _rate_cache[KeyOf(task[t])].actual_date = Iso(task[t].date.day - 2)
        /\ _rate_cache[KeyOf(task[t])].timestamp = now

----------------------------------------------------------------------------
(* Termination                                                             *)

\* the most requests a call can have made before the one it awaits now:
\* MAX_RETRIES for each date left behind - all 1 + MAX_FALLBACK_DAYS of them
\* once the backup is asked - and one for each attempt on this URL before
Rank(tk) ==
    IF tk.pc = "exchangerate"
    THEN MAX_RETRIES * (1 + MAX_FALLBACK_DAYS) + tk.attempt
    ELSE MAX_RETRIES * tk.days_back + tk.attempt

\* (1 + 7) * 3 requests for get_uah_rate, 3 more for get_major_rate
Budget(tk) == IF tk.fn = "get_uah_rate" THEN 24 ELSE 27

InFlight(t) == task[t].pc \in {"frankfurter", "exchangerate", "nbu"}

\* C26: a call awaits one request at a time; each request ends the call or
\* takes it to a later request of the sequence date 0 attempts 1..3, date 1
\* attempts 1..3, ..., date 7 attempts 1..3, backup attempts 1..3, of which
\* get_uah_rate has the first 24 and get_major_rate all 27.  A call that has
\* begun returns, and what it returns is a rate or None.
C26_TerminatesWithinBudget ==
    /\ [][\A t \in Tasks :
             LET tk == task[t]
             IN  /\ (InFlight(t) /\ task'[t] # tk)
                       => \/ /\ task'[t].pc = "done"
                             /\ task'[t].result.tag \in {"rate", "None"}
                          \/ /\ task'[t].pc \in {"frankfurter", "exchangerate", "nbu"}
                             /\ task'[t].fn = tk.fn
                             /\ Rank(task'[t]) > Rank(tk)
                 /\ task'[t].pc \in {"frankfurter", "exchangerate", "nbu"}
                       => /\ Rank(task'[t]) + 1 <= Budget(task'[t])
                          /\ task'[t].attempt < MAX_RETRIES
                          /\ task'[t].days_back <= MAX_FALLBACK_DAYS]_vars
    /\ \A t \in Tasks : InFlight(t) ~> Done(t)

\* witness of C26: get_major_rate has returned the rate the backup gave to
\* its third attempt, after the walk over all 8 dates - the 27th request
\* when every request before it failed
C26_LastRequestOfBudget ==
    \E t \in Tasks :
        /\ Got(t) /\ task[t].source = "exchangerate"
        /\ task[t].attempt = MAX_RETRIES - 1
        /\ Len(task[t].queried) = 1 + MAX_FALLBACK_DAYS

----------------------------------------------------------------------------
(* Properties of reading the cache                                         *)

\* C27: a call answered from the cache leaves the cache as it was, the time
\* of the entry included.  The time of an entry is the time of the return
\* that wrote it and no other step changes it, so a call finds the entry
\* exactly while less than one TTL has passed since that return, however
\* many calls have read it.
C27_HitLeavesCache ==
    [][/\ \A t \in Tasks :
             /\ Calls(t)
                   => LET k == KeyOf(task'[t])
                      IN  IF k \in DOMAIN _rate_cache
                             /\ now - _rate_cache[k].timestamp < CACHE_TTL
                          THEN /\ task'[t].pc = "done" /\ task'[t].source = "cache"
                               /\ task'[t].result.rate = _rate_cache[k].rate
                               /\ _rate_cache' = _rate_cache
                          ELSE task'[t].source # "cache"
             /\ Resolves(t) => _rate_cache'[KeyOf(task'[t])].timestamp = now
       /\ (\A t \in Tasks : ~Resolves(t))
             => \A k \in DOMAIN _rate_cache \cap DOMAIN _rate_cache' :
                   _rate_cache'[k].timestamp = _rate_cache[k].timestamp]_vars

\* witness of C27: a call has just been answered from an entry written half
\* an hour before, and the entry still has the time it was written at
C27_ReadLater ==
    /\ prev # NoCall
    /\ prev.source = "cache"
    /\ prev.at = now
    /\ prev.key \in DOMAIN _rate_cache
    /\ _rate_cache[prev.key].timestamp = now - 1

----------------------------------------------------------------------------
(* Properties of clear_cache among tasks                                   *)

\* C28: clear_cache counts and removes the entries the cache has when it is
\* called, and nothing of a call that is under way.  A call that began before
\* it - `cleared` is still what it returned - and gets its rate after it
\* writes its entry as ever: the cache has an entry again, which the count
\* returned does not include.
C28_WriteAfterClear ==
    [][/\ Clears
          => /\ cleared' = [tag |-> "count", count |-> Cardinality(DOMAIN _rate_cache)]
             /\ DOMAIN _rate_cache' = {}
       /\ \A t \in Tasks :
             (Resolves(t) /\ cleared # None)
                 => /\ DOMAIN _rate_cache' = DOMAIN _rate_cache \cup {KeyOf(task'[t])}
                    /\ _rate_cache'[KeyOf(task'[t])] = EntryOf(t, now)
                    /\ cleared' = cleared]_vars

\* witness of C28: clear_cache found the cache empty and returned 0, no call
\* has begun since, and the cache holds the entry of a call that has returned
C28_EntryAfterClear ==
    /\ cleared = [tag |-> "count", count |-> 0]
    /\ \E t \in Tasks :
          /\ Got(t) /\ task[t].source \in {"frankfurter", "exchangerate"}
          /\ DOMAIN _rate_cache = {KeyOf(task[t])}
          /\ _rate_cache[KeyOf(task[t])].rate = task[t].result.rate
          /\ _rate_cache[KeyOf(task[t])].actual_date = task[t].result.actual_date

----------------------------------------------------------------------------
(* Properties of the text-message handler                                  *)

\* the step is task t's handler calling an entry point
Begins(t) == handler[t].pc = "typing" /\ handler'[t].pc = "resolving"

\* the step is task t taking up a text message
TakesUp(t) == Free(t) /\ handler'[t] # handler[t]

\* the entry point a pair goes to
RouteOf(base, target) ==
    IF base = "UAH" \/ target = "UAH" THEN "get_uah_rate" ELSE "get_major_rate"

\* nothing of the rate engine is touched
EngineUntouched ==
    UNCHANGED <<upstream, now, _rate_cache, task, callsLeft, prev, probe, cleared>>

\* C29 as claimed: an entry point is called only for a user who has a stored
\* pair at that moment, with that pair, and it is get_uah_rate exactly when
\* base or target is UAH; a text message of a user without a stored pair is
\* answered by 'set a pair first' and touches neither provider nor cache.
C29_ResolvesOnlyWithStoredPair ==
    [][\A t \in Tasks :
          /\ Begins(t)
                => LET pair == _memory_storage[handler[t].user]
                   IN  /\ pair # None
                       /\ task'[t].base = pair.base /\ task'[t].target = pair.target
                       /\ task'[t].fn = RouteOf(pair.base, pair.target)
          /\ (TakesUp(t) /\ _memory_storage[handler'[t].user] = None)
                => /\ handler'[t].pc = "answered"
                   /\ handler'[t].answer = "set_pair_first"
                   /\ EngineUntouched]_vars

\* C29 amended: the handler reads the user's pair when it takes the message
\* up, before it awaits the chat action; the entry point is called after
\* that await, for the pair read - stored by a /pair since the user's last
\* /reset when it was read, whatever /pair or /reset was handled during the
\* await - and it is get_uah_rate exactly when base or target of that pair
\* is UAH; a text message taken up when the user has no stored pair is
\* answered by 'set a pair first' and touches neither provider nor cache.
C29_ResolvesPairReadAtStart ==
    [][\A t \in Tasks :
          /\ (TakesUp(t) /\ handler'[t].pc = "typing")
                => /\ _memory_storage[handler'[t].user] # None
                   /\ handler'[t].base = _memory_storage[handler'[t].user].base
                   /\ handler'[t].target = _memory_storage[handler'[t].user].target
                   /\ EngineUntouched
          /\ Begins(t)
                => /\ task'[t].base = handler[t].base
                   /\ task'[t].target = handler[t].target
                   /\ task'[t].date = handler[t].date
                   /\ task'[t].fn = RouteOf(handler[t].base, handler[t].target)
                   /\ \A u \in Tasks \ {t} : task'[u] = task[u]
          /\ (task'[t] # task[t] /\ task[t].pc \in {"idle", "done"}) => Begins(t)
          /\ (TakesUp(t) /\ _memory_storage[handler'[t].user] = None)
                => /\ handler'[t].pc = "answered"
                   /\ handler'[t].answer = "set_pair_first"
                   /\ EngineUntouched]_vars

\* witness of C29: get_uah_rate is at work for a user whose stored pair is
\* UAH/USD, while the other user, who has no pair, was told to set one
C29_UahPairResolving ==
    \E t, u \in Tasks :
        /\ handler[t].pc = "resolving"
        /\ task[t].fn = "get_uah_rate" /\ task[t].pc = "nbu"
        /\ _memory_storage[handler[t].user] = [tag |-> "pair", base |-> "UAH", target |-> "USD"]
        /\ handler[u].pc = "answered" /\ handler[u].answer = "set_pair_first"
        /\ _memory_storage[handler[u].user] = None

\* witness of C29: get_major_rate is at work for a user whose stored pair
\* is EUR/USD
C29_MajorPairResolving ==
    \E t \in Tasks :
        /\ handler[t].pc = "resolving"
        /\ task[t].fn = "get_major_rate" /\ task[t].pc = "frankfurter"
        /\ _memory_storage[handler[t].user] = [tag |-> "pair", base |-> "EUR", target |-> "USD"]

====
